---- MODULE Spec2Model ----
(***************************************************************************)
(* Model of app.py: the catalog loader load_recommendation_jobs, the       *)
(* model loader load_model, the start-up sequence of __main__ and the      *)
(* request handler recommend_jobs.                                         *)
(*                                                                         *)
(* Text is a sequence of one-character strings.  A JSON value is a record  *)
(* [type, s, n]; a catalog-file element is a record [isdict, Title1].      *)
(* Two specifications share the variables:                                 *)
(*   Spec      the program: __main__ loads the model and the catalog, and  *)
(*             only then serves requests (or the module is imported by a   *)
(*             WSGI server and nothing is loaded);                         *)
(*   SpecLoad  load_recommendation_jobs called again and again over        *)
(*             arbitrary file contents.                                    *)
(***************************************************************************)
EXTENDS Integers, Sequences, FiniteSets, TLC

----------------------------------------------------------------------------
(* Bounds *)

MaxTitleLen == 2      \* longest Title1 string of a catalog file (SpecLoad)
MaxEntries == 2       \* longest catalog file array (SpecLoad)
MaxJobs == 6          \* longest catalog file array served from (Spec)

(* Program constant: scores[:5] *)
TopN == 5

----------------------------------------------------------------------------
(* Text *)

Chars == {" ", "a"}
Whitespace == {" "}

RECURSIVE StringsUpTo(_)
StringsUpTo(n) ==
    IF n = 0 THEN {<<>>}
    ELSE LET shorter == StringsUpTo(n - 1)
         IN  shorter \cup {Append(s, c) : s \in {t \in shorter : Len(t) = n - 1}, c \in Chars}

RECURSIVE LStrip(_)
LStrip(s) ==
    IF s = <<>> THEN <<>>
    ELSE IF Head(s) \in Whitespace THEN LStrip(Tail(s)) ELSE s

RECURSIVE RStrip(_)
RStrip(s) ==
    IF s = <<>> THEN <<>>
    ELSE IF s[Len(s)] \in Whitespace THEN RStrip(SubSeq(s, 1, Len(s) - 1)) ELSE s

(* str.strip() *)
Strip(s) == RStrip(LStrip(s))

(* the literal of the f-string f"Job Title: {title}" *)
Prefix == <<"J", "o", "b", " ", "T", "i", "t", "l", "e", ":", " ">>

JobText(title) == Prefix \o title

----------------------------------------------------------------------------
(* JSON values and catalog-file elements *)

Absent == [type |-> "absent", s |-> <<>>, n |-> 0]
Number(k) == [type |-> "number", s |-> <<>>, n |-> k]
Str(t) == [type |-> "str", s |-> t, n |-> 0]

(* Python truth value of what entry.get('Title1') returns *)
Truthy(v) ==
    CASE v.type = "str" -> v.s # <<>>
      [] v.type = "number" -> v.n # 0
      [] OTHER -> FALSE

Dict(v) == [isdict |-> TRUE, Title1 |-> v]
NotDict == [isdict |-> FALSE, Title1 |-> Absent]

(* Elements of a catalog file: not an object, or an object whose Title1 is
   absent, a falsy number, a truthy number, or a string *)
Entries(maxLen) ==
    {NotDict, Dict(Absent), Dict(Number(0)), Dict(Number(7))}
        \cup {Dict(Str(t)) : t \in StringsUpTo(maxLen)}

RECURSIVE ArraysUpTo(_, _)
ArraysUpTo(S, n) ==
    IF n = 0 THEN {<<>>}
    ELSE LET shorter == ArraysUpTo(S, n - 1)
         IN  shorter \cup {Append(a, e) : a \in {b \in shorter : Len(b) = n - 1}, e \in S}

(* A file on disk: missing, unreadable, not JSON, a JSON scalar, or a JSON array *)
Missing == [exists |-> FALSE, kind |-> "none", arr |-> <<>>]
Unreadable == [exists |-> TRUE, kind |-> "unreadable", arr |-> <<>>]
BadJson == [exists |-> TRUE, kind |-> "badjson", arr |-> <<>>]
Scalar == [exists |-> TRUE, kind |-> "scalar", arr |-> <<>>]
Array(a) == [exists |-> TRUE, kind |-> "array", arr |-> a]

Contents(arrays) == {Unreadable, BadJson, Scalar} \cup {Array(a) : a \in arrays}

(* The two paths, data/cleaned.json and static/cleaned.json: the first one
   alone, the second one alone, neither, or both *)
FileSystems(arrays) ==
    {[primary |-> c, fallback |-> Missing] : c \in Contents(arrays) \cup {Missing}}
        \cup {[primary |-> Missing, fallback |-> c] : c \in Contents(ArraysUpTo(Entries(1), 1))}
        \cup {[primary |-> c, fallback |-> Array(<<Dict(Str(<<"a">>))>>)] :
                c \in Contents(ArraysUpTo(Entries(1), 1))}

(* every file content up to the bounds *)
AllFiles == FileSystems(ArraysUpTo(Entries(MaxTitleLen), MaxEntries))

(* the files the server is started on: catalogs of up to MaxJobs titles, all
   the same or two titles in turn, the three-element catalog with an empty
   title, and files the load fails on *)
ServeEntries == <<Dict(Str(<<"a">>)), Dict(Str(<<"a", "a">>))>>

Uniform(n) == [k \in 1..n |-> ServeEntries[1]]
Alternating(n) == [k \in 1..n |-> ServeEntries[2 - (k % 2)]]

ServeFiles ==
    {[primary |-> Array(a), fallback |-> Missing] :
        a \in {Uniform(n) : n \in 0..MaxJobs} \cup {Alternating(n) : n \in 0..MaxJobs}}
        \cup {[primary |-> Array(<<Dict(Str(<<"a">>)), Dict(Str(<<"a", "a">>)), Dict(Str(<<>>))>>),
               fallback |-> Missing],
              [primary |-> Array(<<Dict(Str(<<"a">>)), NotDict>>), fallback |-> Missing],
              [primary |-> Missing, fallback |-> Array(<<Dict(Str(<<" ", "a">>))>>)],
              [primary |-> Scalar, fallback |-> Missing],
              [primary |-> Missing, fallback |-> Missing]}

----------------------------------------------------------------------------
(* State *)

VARIABLES
    model,      \* global model: "None" or "loaded"
    job_data,   \* global job_data: sequence of [title |-> text]
    job_texts,  \* global job_texts: sequence of text
    pc,         \* position of the process
    ldPc,       \* position inside load_recommendation_jobs
    data,       \* its local data (the parsed file)
    i,          \* number of elements of data the for loop has consumed
    title,      \* its local title
    ldResult,   \* how the call ended: "none", "ok", "caught", "raised"
    resp,       \* the response of the request being answered
    enc         \* what the embedding provider did during that request

vars == <<model, job_data, job_texts, pc, ldPc, data, i, title, ldResult, resp, enc>>

NoData == [kind |-> "none", arr |-> <<>>]

----------------------------------------------------------------------------
(* load_recommendation_jobs *)

Exceptions == {"FileNotFoundError", "PermissionError", "JSONDecodeError",
               "TypeError", "AttributeError"}

(* Caught with a narrow clause: except (OSError, ValueError) *)
CaughtNarrow(exc) == exc \in {"FileNotFoundError", "PermissionError", "JSONDecodeError"}

(* except Exception as e: every exception the body raises is caught *)
Caught(exc) == exc \in Exceptions

(* Handle that forgets job_texts = [] *)
HandleDataOnly(exc) ==
    /\ job_data' = <<>>
    /\ UNCHANGED job_texts
    /\ ldResult' = "caught"

(* the except clause: both globals are rebound to [] *)
Handle(exc) ==
    IF Caught(exc)
    THEN /\ job_data' = <<>>
         /\ job_texts' = <<>>
         /\ ldResult' = "caught"
    ELSE /\ UNCHANGED <<job_data, job_texts>>
         /\ ldResult' = "raised"

(* os.path.exists(data_path) decides the path that is opened *)
DataPath(fs) == IF fs.primary.exists THEN fs.primary ELSE fs.fallback

(* open + json.load *)
OpenError(file) ==
    CASE ~file.exists -> "FileNotFoundError"
      [] file.kind = "unreadable" -> "PermissionError"
      [] file.kind = "badjson" -> "JSONDecodeError"
      [] OTHER -> "none"

(* the call, open(), json.load() and the two clear() calls *)
LoadOpen(files) ==
    /\ pc \in {"in_load", "calls"}
    /\ ldPc = "idle"
    /\ \E fs \in files :
        LET file == DataPath(fs) IN
        IF OpenError(file) # "none"
        THEN /\ Handle(OpenError(file))
             /\ ldPc' = "done"
             /\ UNCHANGED <<data, i, title>>
        ELSE /\ data' = [kind |-> file.kind, arr |-> file.arr]
             /\ job_data' = <<>>
             /\ job_texts' = <<>>
             /\ i' = 0
             /\ ldPc' = "for"
             /\ UNCHANGED <<title, ldResult>>
    /\ UNCHANGED <<model, pc, resp, enc>>

(* EntryStep testing only that Title1 is there: 'Title1' not in entry *)
EntryStepPresence(entry) ==
    IF ~entry.isdict THEN "raise"
    ELSE IF entry.Title1.type = "absent" THEN "skip"
    ELSE IF entry.Title1.type # "str" THEN "raise"
    ELSE "keep"

(* what one pass of the loop head and body does with an element, up to
   line 48: "raise", "skip" or "keep" *)
EntryStep(entry) ==
    IF ~entry.isdict THEN "raise"                  \* entry.get: AttributeError
    ELSE IF ~Truthy(entry.Title1) THEN "skip"      \* continue
    ELSE IF entry.Title1.type # "str" THEN "raise" \* .strip(): AttributeError
    ELSE "keep"

(* for entry in data: ... job_texts.append(job_text) *)
LoadFor ==
    /\ ldPc = "for"
    /\ IF data.kind # "array"
       THEN /\ Handle("TypeError")
            /\ ldPc' = "done"
            /\ UNCHANGED <<i, title>>
       ELSE IF i = Len(data.arr)
       THEN /\ ldPc' = "done"
            /\ ldResult' = "ok"
            /\ UNCHANGED <<job_data, job_texts, i, title>>
       ELSE LET entry == data.arr[i + 1] IN
            CASE EntryStep(entry) = "raise" ->
                    /\ Handle("AttributeError")
                    /\ ldPc' = "done"
                    /\ UNCHANGED <<i, title>>
              [] EntryStep(entry) = "skip" ->
                    /\ i' = i + 1
                    /\ UNCHANGED <<job_data, job_texts, ldPc, title, ldResult>>
              [] OTHER ->
                    /\ title' = Strip(entry.Title1.s)
                    /\ job_texts' = Append(job_texts, JobText(title'))
                    /\ ldPc' = "append_data"
                    /\ UNCHANGED <<job_data, i, ldResult>>
    /\ UNCHANGED <<model, pc, data, resp, enc>>

(* job_data.append({'title': title}) *)
LoadAppendData ==
    /\ ldPc = "append_data"
    /\ job_data' = Append(job_data, [title |-> title])
    /\ i' = i + 1
    /\ ldPc' = "for"
    /\ UNCHANGED <<model, job_texts, pc, data, title, ldResult, resp, enc>>

(* the function returns: its locals are gone *)
LoadReturn ==
    /\ ldPc = "done"
    /\ ldPc' = "idle"
    /\ data' = NoData
    /\ i' = 0
    /\ title' = <<>>
    /\ pc' = IF pc = "in_load"
             THEN (IF ldResult = "raised" THEN "crashed" ELSE "serving")
             ELSE pc
    /\ UNCHANGED <<model, job_data, job_texts, ldResult, resp, enc>>

----------------------------------------------------------------------------
(* recommend_jobs *)

(* request.json: not JSON at all, null, {}, a non-empty object, or a truthy
   value that is no object *)
Body(kind, v) == [kind |-> kind, userInput |-> v]

Bodies ==
    {Body("malformed", Absent), Body("null", Absent), Body("empty_object", Absent),
     Body("other", Absent)}
        \cup {Body("object", v) : v \in {Absent, Str(<<>>), Str(<<"a">>), Number(0), Number(7)}}

(* data.get('userInput', '') if data else '' *)
UserInput(b) ==
    IF b.kind = "object" /\ b.userInput.type # "absent" THEN b.userInput ELSE Str(<<>>)

(* cosine similarity, in steps of 1: -1, 0, 1 *)
Scores == {-1, 0, 1}

(* what model.encode and cosine_similarity do for one catalog item: a score,
   or an exception *)
Scored(x) == [ok |-> TRUE, score |-> x]
Failed == [ok |-> FALSE, score |-> 0]
Outcomes == {Failed} \cup {Scored(x) : x \in Scores}

NoEnc == [input |-> "none", items |-> <<>>]

(* the provider during one request: model.encode(user_input) answers or
   raises, and so does each pass of the loop *)
EncBehaviours(n) ==
    {[input |-> "raise", items |-> <<>>]}
        \cup {[input |-> "ok", items |-> it] : it \in [1..n -> Outcomes]}

(* Validate without the check of job_texts *)
ValidateNoCatalog(user_input) ==
    IF ~Truthy(user_input) THEN 400
    ELSE IF model = "None" THEN 503
    ELSE 0

(* Validate with the model checked before the input *)
ValidateModelFirst(user_input) ==
    IF model = "None" THEN 503
    ELSE IF ~Truthy(user_input) THEN 400
    ELSE IF job_texts = <<>> THEN 503
    ELSE 0

(* the three early returns: 0 when none is taken *)
Validate(user_input) ==
    IF ~Truthy(user_input) THEN 400
    ELSE IF model = "None" THEN 503
    ELSE IF job_texts = <<>> THEN 503
    ELSE 0

ErrorOf(user_input) ==
    IF ~Truthy(user_input) THEN "Missing user input"
    ELSE IF model = "None" THEN "Recommendation model not available"
    ELSE "No job data available for recommendations"

(* ScoreLoop whose except clause appends a score of 0 *)
RECURSIVE ScoreLoopKeep(_, _)
ScoreLoopKeep(items, k) ==
    IF k = 0 THEN <<>>
    ELSE Append(ScoreLoopKeep(items, k - 1), [index |-> k - 1, score |-> items[k].score])

(* scores after the first k passes of the loop over enumerate(job_texts):
   a pass that raises appends nothing *)
RECURSIVE ScoreLoop(_, _)
ScoreLoop(items, k) ==
    IF k = 0 THEN <<>>
    ELSE LET prev == ScoreLoop(items, k - 1)
         IN  IF items[k].ok
             THEN Append(prev, [index |-> k - 1, score |-> items[k].score])
             ELSE prev

Reverse(s) == [j \in 1..Len(s) |-> s[Len(s) + 1 - j]]

(* a stable insertion: x goes after every element whose key is not greater *)
RECURSIVE InsertAsc(_, _)
InsertAsc(s, x) ==
    IF s = <<>> THEN <<x>>
    ELSE IF x.score < Head(s).score THEN <<x>> \o s
    ELSE <<Head(s)>> \o InsertAsc(Tail(s), x)

RECURSIVE StableSortAsc(_)
StableSortAsc(s) ==
    IF s = <<>> THEN <<>>
    ELSE InsertAsc(StableSortAsc(SubSeq(s, 1, Len(s) - 1)), s[Len(s)])

(* SortScores without reverse=True *)
SortScoresAscending(scores) == StableSortAsc(scores)

(* SortScores as an ascending sort followed by reverse() *)
SortScoresThenReverse(scores) == Reverse(StableSortAsc(scores))

(* scores.sort(key=lambda x: x['score'], reverse=True): list.sort reverses
   the list, sorts it stably in ascending order and reverses it again *)
SortScores(scores) == Reverse(StableSortAsc(Reverse(scores)))

(* scores[:5] *)
TopJobs(sorted) == SubSeq(sorted, 1, IF Len(sorted) < TopN THEN Len(sorted) ELSE TopN)

(* the list comprehension over top_jobs *)
Recommendations(top) ==
    [j \in 1..Len(top) |-> [title |-> job_data[top[j].index + 1].title,
                            score |-> top[j].score]]

(* a response: status, error message, the JSON list, and what the handler
   held when it answered (its locals scores and top_jobs, its request and
   whether the load had returned) *)
NoResp == [status |-> 0, error |-> "", body |-> <<>>, scores |-> <<>>, top_jobs |-> <<>>,
           req |-> Body("none", Absent), loadDone |-> FALSE]

(* the load has returned *)
LoadDone == ldPc = "idle" /\ ldResult # "none"

ErrorResp(b, status, error) ==
    [status |-> status, error |-> error, body |-> <<>>, scores |-> <<>>,
     top_jobs |-> <<>>, req |-> b, loadDone |-> LoadDone]

InternalError(b) == ErrorResp(b, 500, "Internal server error during recommendation")

(* the response to body b when the provider behaves as e *)
Respond(b, e) ==
    IF b.kind \in {"malformed", "other"} THEN InternalError(b)
    ELSE IF Validate(UserInput(b)) # 0
    THEN ErrorResp(b, Validate(UserInput(b)), ErrorOf(UserInput(b)))
    ELSE IF e.input = "raise" THEN InternalError(b)
    ELSE LET sorted == SortScores(ScoreLoop(e.items, Len(job_texts)))
             top == TopJobs(sorted)
         IN  IF \E j \in 1..Len(top) : top[j].index + 1 > Len(job_data)
             THEN InternalError(b)                 \* IndexError
             ELSE [status |-> 200, error |-> "", body |-> Recommendations(top),
                   scores |-> sorted, top_jobs |-> top, req |-> b,
                   loadDone |-> LoadDone]

(* Accepting with the server started before the catalog load has returned *)
AcceptingEarly == pc \in {"serving", "in_load"}

(* the server answers requests: app.run() follows both loads *)
Accepting == pc = "serving"

(* one POST /api/recommend-jobs *)
Recommend ==
    /\ Accepting
    /\ resp = NoResp
    /\ \E b \in Bodies :
        IF b.kind \in {"malformed", "other"} \/ Validate(UserInput(b)) # 0
        THEN /\ resp' = Respond(b, NoEnc)
             /\ enc' = NoEnc
        ELSE \E e \in EncBehaviours(Len(job_texts)) :
                /\ resp' = Respond(b, e)
                /\ enc' = e
    /\ UNCHANGED <<model, job_data, job_texts, pc, ldPc, data, i, title, ldResult>>

(* the response is sent *)
Deliver ==
    /\ resp # NoResp
    /\ resp' = NoResp
    /\ enc' = NoEnc
    /\ UNCHANGED <<model, job_data, job_texts, pc, ldPc, data, i, title, ldResult>>

----------------------------------------------------------------------------
(* __main__ *)

(* load_model(): the model loads, or the exception is caught and it is None *)
MainLoadModel ==
    /\ pc = "load_model"
    /\ model' \in {"loaded", "None"}
    /\ pc' = "load_jobs"
    /\ UNCHANGED <<job_data, job_texts, ldPc, data, i, title, ldResult, resp, enc>>

(* load_recommendation_jobs() is called *)
MainCallLoad ==
    /\ pc = "load_jobs"
    /\ pc' = "in_load"
    /\ UNCHANGED <<model, job_data, job_texts, ldPc, data, i, title, ldResult, resp, enc>>

(* the module is run as a script, or imported by a server that never runs
   the loads *)
Init ==
    /\ model = "None"
    /\ job_data = <<>>
    /\ job_texts = <<>>
    /\ pc \in {"load_model", "serving"}
    /\ ldPc = "idle"
    /\ data = NoData
    /\ i = 0
    /\ title = <<>>
    /\ ldResult = "none"
    /\ resp = NoResp
    /\ enc = NoEnc

Next ==
    \/ MainLoadModel
    \/ MainCallLoad
    \/ LoadOpen(ServeFiles)
    \/ LoadFor
    \/ LoadAppendData
    \/ LoadReturn
    \/ Recommend
    \/ Deliver

Spec == Init /\ [][Next]_vars

----------------------------------------------------------------------------
(* load_recommendation_jobs called repeatedly *)

InitLoad ==
    /\ model = "None"
    /\ job_data = <<>>
    /\ job_texts = <<>>
    /\ pc = "calls"
    /\ ldPc = "idle"
    /\ data = NoData
    /\ i = 0
    /\ title = <<>>
    /\ ldResult = "none"
    /\ resp = NoResp
    /\ enc = NoEnc

NextLoad ==
    \/ LoadOpen(AllFiles)
    \/ LoadFor
    \/ LoadAppendData
    \/ LoadReturn

SpecLoad == InitLoad /\ [][NextLoad]_vars

----------------------------------------------------------------------------
(* Properties of recommend_jobs, under Spec *)

Answered == resp # NoResp

(* the request carried a JSON object with a non-empty userInput *)
NonEmptyInput == Answered /\ resp.req.kind = "object" /\ Truthy(UserInput(resp.req))

(* the catalog items whose embedding and scoring did not fail *)
Survivors == {n \in 1..Len(enc.items) : enc.items[n].ok}

Min(a, b) == IF a < b THEN a ELSE b

(* C1: a 200 response of recommend_jobs is a list of at most 5 items, its
   scores non-increasing from first to last, each score within [-1, 1]. *)
C1_Top5SortedBounded ==
    (Answered /\ resp.status = 200) =>
        /\ Len(resp.body) <= 5
        /\ \A j \in 1..Len(resp.body) : resp.body[j].score >= -1 /\ resp.body[j].score <= 1
        /\ \A j \in 1..(Len(resp.body) - 1) : resp.body[j].score >= resp.body[j + 1].score

(* a catalog of more than 5 items, all scored, answered with 5 items of
   which the first scores more than the last *)
C1_Witness ==
    /\ Answered /\ resp.status = 200
    /\ model = "loaded" /\ Len(job_texts) > 5
    /\ Cardinality(Survivors) > 5
    /\ Len(resp.body) = 5
    /\ resp.body[1].score > resp.body[5].score

(* C2: with an empty catalog, a request with non-empty input is answered
   503, whether the model is loaded or not, and never 200. *)
C2_EmptyCatalog503 ==
    (NonEmptyInput /\ job_texts = <<>>) => resp.status = 503

(* the model is loaded, the catalog is empty, the answer is 503 *)
C2_Witness ==
    /\ NonEmptyInput /\ job_texts = <<>>
    /\ model = "loaded"
    /\ resp.status = 503
    /\ resp.error = "No job data available for recommendations"

(* the request carried a JSON object without userInput, or with "" *)
MissingInput ==
    /\ Answered
    /\ \/ resp.req.kind = "empty_object"
       \/ resp.req.kind = "object" /\ resp.req.userInput \in {Absent, Str(<<>>)}

(* C3: a JSON body whose userInput is omitted or "" is answered 400, whatever
   the model and the catalog are. *)
C3_MissingInput400 ==
    MissingInput => resp.status = 400

(* 400 although the model is not loaded and the catalog is empty *)
C3_Witness ==
    /\ MissingInput
    /\ model = "None" /\ job_texts = <<>>
    /\ resp.status = 400

(* C7: a request with non-empty input answered before the catalog load has
   returned is answered 503; a 200 is only ever answered after the load has
   returned, from the catalog it left. *)
C7_NoAnswerBeforeLoad ==
    /\ (NonEmptyInput /\ ~resp.loadDone) => resp.status = 503
    /\ (Answered /\ resp.status = 200) => (resp.loadDone /\ LoadDone /\ ldResult = "ok")

(* a request with non-empty input answered 503 when no load has run *)
C7_Witness ==
    /\ NonEmptyInput
    /\ ~resp.loadDone /\ ldResult = "none"
    /\ resp.status = 503

(* C8: once the input is embedded, the answer is 200 whatever subset of the
   catalog items fails: the result is the top min(5, k) of the k items that
   did not fail, each with its own score and the title of its own catalog
   index, and no failed item is in it. *)
C8_FailedItemsSkipped ==
    (Answered /\ enc.input = "ok") =>
        /\ resp.status = 200
        /\ Len(resp.top_jobs) = Min(5, Cardinality(Survivors))
        /\ Len(resp.body) = Len(resp.top_jobs)
        /\ \A j \in 1..Len(resp.top_jobs) :
            LET n == resp.top_jobs[j].index + 1 IN
            /\ n \in Survivors
            /\ resp.top_jobs[j].score = enc.items[n].score
            /\ resp.body[j].score = enc.items[n].score
            /\ resp.body[j].title = job_data[n].title
            /\ JobText(resp.body[j].title) = job_texts[n]
        /\ \A j, l \in 1..Len(resp.top_jobs) :
            j # l => resp.top_jobs[j].index # resp.top_jobs[l].index
        /\ \A n \in Survivors :
            \/ \E j \in 1..Len(resp.top_jobs) : resp.top_jobs[j].index + 1 = n
            \/ \A j \in 1..Len(resp.top_jobs) : resp.top_jobs[j].score >= enc.items[n].score

(* some items fail, the first of them before a survivor, and the answer
   carries two different titles *)
C8_Witness ==
    /\ Answered /\ enc.input = "ok" /\ resp.status = 200
    /\ ~enc.items[1].ok
    /\ Cardinality(Survivors) >= 2
    /\ Cardinality(Survivors) < Len(job_texts)
    /\ \E j, l \in 1..Len(resp.body) : resp.body[j].title # resp.body[l].title

(* C9: two scored items of equal score stand in the sorted list, and so in
   the top 5, in catalog order: the lower index first. *)
C9_TiesInCatalogOrder ==
    (Answered /\ resp.status = 200) =>
        /\ \A j, l \in 1..Len(resp.scores) :
            (j < l /\ resp.scores[j].score = resp.scores[l].score)
                => resp.scores[j].index < resp.scores[l].index
        /\ \A j, l \in 1..Len(resp.top_jobs) :
            (j < l /\ resp.top_jobs[j].score = resp.top_jobs[l].score)
                => resp.top_jobs[j].index < resp.top_jobs[l].index

(* a tie among the returned items, behind an item of a higher score that
   has a higher catalog index *)
C9_Witness ==
    /\ Answered /\ resp.status = 200
    /\ Len(resp.top_jobs) >= 3
    /\ resp.top_jobs[1].score > resp.top_jobs[2].score
    /\ resp.top_jobs[2].score = resp.top_jobs[3].score
    /\ resp.top_jobs[1].index > resp.top_jobs[3].index

----------------------------------------------------------------------------
(* Properties of load_recommendation_jobs, under SpecLoad *)

(* the call has reached its end: line 54 or the except clause is behind it *)
LoadEnded == ldPc \in {"done", "idle"} /\ ldResult # "none"

(* Title1 is present and non-empty; null, 0 and "" are empty, as Python's
   truth value has it *)
HasTitle(entry) == entry.isdict /\ Truthy(entry.Title1)

(* C4: at the end of a successful load, job_data and job_texts hold exactly
   the elements of the array whose Title1 is present and non-empty, in the
   array's order: the title is Title1 stripped, the description is
   "Job Title: " followed by that title. *)
C4_ExactlyTitledEntries ==
    (ldPc = "done" /\ ldResult = "ok") =>
        LET kept == SelectSeq(data.arr, HasTitle) IN
        /\ Len(job_data) = Len(kept)
        /\ Len(job_texts) = Len(kept)
        /\ \A n \in 1..Len(kept) :
            /\ job_data[n].title = Strip(kept[n].Title1.s)
            /\ job_texts[n] = Prefix \o job_data[n].title

(* an array of two elements, the first without a title, the second with a
   title that strip() shortens *)
C4_Witness ==
    /\ ldPc = "done" /\ ldResult = "ok"
    /\ Len(data.arr) = 2
    /\ ~HasTitle(data.arr[1])
    /\ HasTitle(data.arr[2])
    /\ Len(job_data) = 1
    /\ job_data[1].title # data.arr[2].Title1.s
    /\ job_data[1].title # <<>>

(* C5: after every call, however it ended, job_data and job_texts have the
   same length and job_texts[N] is "Job Title: " + job_data[N].title. *)
C5_Aligned ==
    LoadEnded =>
        /\ Len(job_data) = Len(job_texts)
        /\ \A n \in 1..Len(job_data) : job_texts[n] = Prefix \o job_data[n].title

(* a call that failed on its second element, after the first was appended *)
C5_Witness ==
    /\ ldPc = "done" /\ ldResult = "caught"
    /\ data.kind = "array" /\ i = 1
    /\ HasTitle(data.arr[1])

(* C6: a call that fails ends with both lists empty and the exception
   caught, not raised to the caller. *)
C6_FailureEmpties ==
    (LoadEnded /\ ldResult # "ok") =>
        /\ ldResult = "caught"
        /\ job_data = <<>>
        /\ job_texts = <<>>

(* a call that failed on an element after an earlier one was appended *)
C6_Witness ==
    /\ ldPc = "done" /\ ldResult = "caught"
    /\ data.kind = "array" /\ i >= 1
    /\ \E n \in 1..i : HasTitle(data.arr[n])
    /\ job_data = <<>>

(* C10: after a load, every record of job_data has a non-empty title and no
   description is the bare "Job Title: ". *)
C10_NoEmptyTitle ==
    LoadEnded =>
        /\ \A n \in 1..Len(job_data) : job_data[n].title # <<>>
        /\ \A n \in 1..Len(job_texts) : job_texts[n] # Prefix

====
